---- MODULE Spec2Model ----
(***************************************************************************)
(* A model of watchboi's reverse proxy / live-reload service (src/http.rs)  *)
(* and of its task engine (src/task.rs, src/op/*.rs).                       *)
(*                                                                         *)
(* The module holds several specifications over one set of variables:      *)
(*   SpecInject  the pure function inject_into applied to bounded inputs   *)
(*   SpecTask    Task::run over bounded operation lists                    *)
(*   Spec        serve_ws: accept loop, refresh thread and registry        *)
(*   SpecPoll    wait_until_socket_open alone (SpecPollFair: with fairness)*)
(*   SpecProxy   run_server and the service function proxy                 *)
(*   SpecFair    Spec with the fairness of its threads                     *)
(*   SpecRun     run: the proxy thread and the WebSocket thread together   *)
(*   SpecProc    a RunningCommand handle and the process behind it         *)
(*   SpecParse   the parsing of a command specification                    *)
(* Each specification leaves the variables of the other parts untouched.   *)
(***************************************************************************)
EXTENDS Integers, Sequences, FiniteSets, Bags, TLC

VARIABLES
    \* ---- inject_into (src/http.rs:130-155)
    input,        \* the `input: &[u8]` argument, a sequence of byte values
    ws_port,      \* `ws_addr.port()`
    out,          \* the returned Vec<u8>
    insert_idx,   \* the local `insert_idx` of the call
    inj_pc        \* "call" before the call, "done" after it

VARIABLES
    \* ---- Task::run (src/task.rs:31-54) and the operations it runs
    operations,   \* `self.operations` of the task being run
    frames,       \* the Context frames alive, the caller's first
    task_pc,      \* "idle", "loop", "wait" (a child runs), "returned"
    op_idx,       \* position of the for loop in `operations` (1-based)
    child,        \* the RunningCommand of the current operation, or {}
    result,       \* what the last Task::run returned
    started,      \* indices of the operations whose run was entered, in order
    outcomes,     \* what each of them gave: an Outcome or "Err"
    cwds,         \* the directory each of them resolved as its own
    runs          \* number of calls of Task::run so far

VARIABLES
    \* ---- serve_ws (src/http.rs:157-186)
    sockets,      \* the Vec<WebSocket> behind the mutex: connection ids
    closes,       \* how often each connection's WebSocket was dropped
    hs_failed,    \* the connections whose handshake failed
    accept_pc,    \* accept loop: "bind", "incoming", "handshake", "lock",
                  \* "push", "ended"
    cur,          \* the connection the accept loop holds, or 0
    next_conn,    \* number of connections server.incoming() has yielded
    lock,         \* holder of the mutex: "free", "accept", "refresh"
    refresh_pc,   \* refresh thread: "recv", "wait", "clear", "unlock", "ended"
    queue,        \* refresh events sent and not yet received
    sent,         \* refresh events sent so far
    sender_alive, \* the Sender<()> of the refresh channel still exists
    drained,      \* the connections the last clear() found in the vector
    target,       \* config.proxy is Some
    handled,      \* number of refresh events whose drain has been done
    send_errs     \* number of sends that failed: the Receiver was gone

VARIABLES
    \* ---- run (src/http.rs:20-49)
    errors,       \* what was sent on errors_tx, in order
    errors_rx     \* the supervisor's Receiver of the error channel exists

VARIABLES
    \* ---- wait_until_socket_open (src/http.rs:188-206)
    poll_pc,      \* "off", "run", "returned"
    elapsed,      \* start_wait.elapsed() in ms
    poll_result   \* "none", "open" (returned on a connect), "timeout"

VARIABLES
    \* ---- run_server and proxy (src/http.rs:51-128)
    server_pc,    \* "start", "serving", "ended" (returned Err), "panicked"
    proxy_cfg,    \* config.proxy is Some
    auto_reload,  \* config.auto_reload()
    served,       \* number of requests the service function has handled
    last_pq,      \* path and query of the last request
    last_up,      \* what the backend did with it
    last_result,  \* what proxy returned for it
    answers,      \* what each request's client got, in short
    server_err,   \* the error run_server returned, or "none"
    inflight      \* the calls of proxy that wait at one of its awaits

VARIABLES
    \* ---- RunningCommand (src/op/command.rs:155-184)
    proc,         \* the child process: "off", "running", "exited"
    exit_status,  \* its ExitStatus once it has exited, {} before
    reaped,       \* std's Child has collected the status (wait or try_wait)
    kill_sent,    \* a SIGKILL reached the process while it ran
    calls,        \* the calls made on the handle, with what each returned
    kill_reaped_ok, \* Child::kill on a collected child gives Ok (else Err)
    sigchld_ignored \* the parent ignores SIGCHLD: the kernel reaps the child

VARIABLES
    \* ---- ProgramAndArgs::try_from (src/op/command.rs:37-69)
    src,          \* the RawProgramAndArgs argument
    parsed,       \* the Result returned
    parse_pc      \* "call" before the call, "done" after it

injVars == <<input, ws_port, out, insert_idx, inj_pc>>
proxyVars == <<server_pc, proxy_cfg, auto_reload, served, last_pq, last_up,
               last_result, answers, server_err, inflight>>
wsVars == <<sockets, closes, hs_failed, accept_pc, cur, next_conn, lock,
            refresh_pc, queue, sent, sender_alive, drained, target, handled,
            send_errs>>
chanVars == <<errors>>
rxVars == <<errors_rx>>
procVars == <<proc, exit_status, reaped, kill_sent, calls, kill_reaped_ok,
              sigchld_ignored>>
parseVars == <<src, parsed, parse_pc>>
pollVars == <<poll_pc, elapsed, poll_result>>
taskVars == <<operations, frames, task_pc, op_idx, child, result, started,
              outcomes, cwds, runs>>

vars == <<injVars, taskVars, wsVars, chanVars, rxVars, pollVars, proxyVars,
          procVars, parseVars>>

\* the variables the operations of one part leave alone
\* (the operations of serve_ws and of run_server say themselves what they
\* do with the error channel)
notInjVars == <<rxVars, taskVars, wsVars, chanVars, pollVars, proxyVars,
                procVars, parseVars>>
notTaskVars == <<rxVars, injVars, wsVars, chanVars, pollVars, proxyVars,
                 procVars, parseVars>>
notWsVars == <<rxVars, injVars, taskVars, proxyVars, procVars, parseVars>>
notPollVars == <<rxVars, injVars, taskVars, wsVars, chanVars, proxyVars,
                 procVars, parseVars>>
notProxyVars == <<rxVars, injVars, taskVars, wsVars, pollVars, procVars,
                  parseVars>>
notProcVars == <<rxVars, injVars, taskVars, wsVars, chanVars, pollVars,
                 proxyVars, parseVars>>
notParseVars == <<rxVars, injVars, taskVars, wsVars, chanVars, pollVars,
                  proxyVars, procVars>>

(***************************************************************************)
(* The state of a part no operation of which has run                       *)
(***************************************************************************)
InjectOff ==
    /\ input = <<>>
    /\ ws_port = 0
    /\ out = <<>>
    /\ insert_idx = 0
    /\ inj_pc = "off"

WsOff ==
    /\ sockets = <<>>
    /\ closes = <<>>
    /\ hs_failed = {}
    /\ accept_pc = "off"
    /\ cur = 0
    /\ next_conn = 0
    /\ lock = "free"
    /\ refresh_pc = "off"
    /\ queue = 0
    /\ sent = 0
    /\ sender_alive = FALSE
    /\ drained = {}
    /\ errors = <<>>
    /\ target = FALSE
    /\ handled = 0
    /\ send_errs = 0

\* no thread of `run` exists: nobody holds the error channel
RxOff == errors_rx = FALSE

ProcOff ==
    /\ proc = "off"
    /\ exit_status = {}
    /\ reaped = FALSE
    /\ kill_sent = FALSE
    /\ calls = <<>>
    /\ kill_reaped_ok = TRUE
    /\ sigchld_ignored = FALSE

ParseOff ==
    /\ src = [kind |-> "none"]
    /\ parsed = [kind |-> "none"]
    /\ parse_pc = "off"

PollOff ==
    /\ poll_pc = "off"
    /\ elapsed = 0
    /\ poll_result = "none"

ProxyOff ==
    /\ server_pc = "off"
    /\ proxy_cfg = FALSE
    /\ auto_reload = FALSE
    /\ served = 0
    /\ last_pq = {}
    /\ last_up = [kind |-> "none"]
    /\ last_result = [kind |-> "none"]
    /\ answers = <<>>
    /\ server_err = "none"
    /\ inflight = EmptyBag

TaskOff ==
    /\ operations = <<>>
    /\ frames = <<[workdir |-> {}]>>
    /\ task_pc = "off"
    /\ op_idx = 0
    /\ child = {}
    /\ result = "None"
    /\ started = <<>>
    /\ outcomes = <<>>
    /\ cwds = <<>>
    /\ runs = 0

(***************************************************************************)
(* Bounds of the model.                                                    *)
(***************************************************************************)
\* the longest input of inject_into, counted in fragments of Frags
MaxChunks == 4
\* the longest operation list of a task
MaxOps == 3
\* the number of consecutive calls of Task::run
MaxRuns == 2
\* the number of inbound WebSocket connections
MaxConns == 3
\* the number of refresh events sent
MaxEvents == 2
\* the number of requests the proxy serves
MaxRequests == 2
\* the number of calls made on one RunningCommand handle
MaxCalls == 3
\* the longest command string and the longest command list
MaxStrLen == 5
MaxFrags == 4

(***************************************************************************)
(* Bytes and byte strings (ASCII codes).                                   *)
(***************************************************************************)
\* b"</body>"
BODY_CLOSE == <<60, 47, 98, 111, 100, 121, 62>>
\* b"<!--"
COMMENT_OPEN == <<60, 33, 45, 45>>
\* b"-->"
COMMENT_CLOSE == <<45, 45, 62>>
\* "<script>\n"
SCRIPT_OPEN == <<60, 115, 99, 114, 105, 112, 116, 62, 10>>
\* "</script>"
SCRIPT_CLOSE == <<60, 47, 115, 99, 114, 105, 112, 116, 62>>

\* The bytes of inject.js before and after the placeholder
\* INSERT_PORT_HERE_KTHXBYE: "ws://h:" and ";\n" stand for the payload,
\* which is not part of the sources at hand.
JS_BEFORE_PORT == <<119, 115, 58, 47, 47, 104, 58>>
JS_AFTER_PORT == <<59, 10>>

\* u16::to_string: the decimal digits of n as ASCII bytes
RECURSIVE PortToString(_)
PortToString(n) ==
    IF n < 10 THEN <<48 + n>>
    ELSE PortToString(n \div 10) \o <<48 + (n % 10)>>

\* include_str!("inject.js").replace("INSERT_PORT_HERE_KTHXBYE", port)
Js(port) == JS_BEFORE_PORT \o PortToString(port) \o JS_AFTER_PORT

\* format!("<script>\n{}</script>", js)
Script(port) == SCRIPT_OPEN \o Js(port) \o SCRIPT_CLOSE

\* &input[i..] with Rust's 0-based index i
RestFrom(s, i) == SubSeq(s, i + 1, Len(s))

\* <[u8]>::starts_with
StartsWith(s, prefix) ==
    /\ Len(s) >= Len(prefix)
    /\ SubSeq(s, 1, Len(prefix)) = prefix

\* Option<usize> is modelled as a set of at most one index: None is {}
unwrap_or(opt, default) == IF opt = {} THEN default ELSE CHOOSE x \in opt : TRUE

(***************************************************************************)
(* inject_into: the scan of src/http.rs:131-142.  ScanFrom(s, i, idx, ic)  *)
(* is the value of body_close_idx after the iterations i .. len-1 of the   *)
(* for loop, entered with body_close_idx = idx and inside_comment = ic.    *)
(***************************************************************************)
RECURSIVE ScanFromNoComment(_, _, _, _)
\* a faulty scan: it matches the tag inside comments too
ScanFromNoComment(s, i, idx, ic) ==
    IF i >= Len(s) THEN idx
    ELSE IF StartsWith(RestFrom(s, i), BODY_CLOSE)
         THEN ScanFromNoComment(s, i + 1, {i}, ic)
    ELSE IF ~ic /\ StartsWith(RestFrom(s, i), COMMENT_OPEN)
         THEN ScanFromNoComment(s, i + 1, idx, TRUE)
    ELSE IF ic /\ StartsWith(RestFrom(s, i), COMMENT_CLOSE)
         THEN ScanFromNoComment(s, i + 1, idx, FALSE)
    ELSE ScanFromNoComment(s, i + 1, idx, ic)

RECURSIVE ScanFrom(_, _, _, _)
ScanFrom(s, i, idx, ic) ==
    IF i >= Len(s) THEN idx
    ELSE IF ~ic /\ StartsWith(RestFrom(s, i), BODY_CLOSE)
         THEN ScanFrom(s, i + 1, {i}, ic)
    ELSE IF ~ic /\ StartsWith(RestFrom(s, i), COMMENT_OPEN)
         THEN ScanFrom(s, i + 1, idx, TRUE)
    ELSE IF ic /\ StartsWith(RestFrom(s, i), COMMENT_CLOSE)
         THEN ScanFrom(s, i + 1, idx, FALSE)
    ELSE ScanFrom(s, i + 1, idx, ic)

\* body_close_idx after the loop: it starts as None, outside a comment
BodyCloseIdx(s) == ScanFrom(s, 0, {}, FALSE)

\* a faulty fallback: the front of the buffer when no tag is found
InsertIdxFront(s) == unwrap_or(BodyCloseIdx(s), 0)

\* let insert_idx = body_close_idx.unwrap_or(input.len());
InsertIdx(s) == unwrap_or(BodyCloseIdx(s), Len(s))

\* out = input[..insert_idx] ++ script ++ input[insert_idx..]
InsertAt(s, k, script) == SubSeq(s, 1, k) \o script \o RestFrom(s, k)

inject_into(s, port) == InsertAt(s, InsertIdx(s), Script(port))

(***************************************************************************)
(* The inputs inject_into is applied to: every concatenation of at most    *)
(* MaxChunks fragments, and the example document of the specification.     *)
(***************************************************************************)
\* "</body>", "<!--", "-->", "x", "-", ">", "<"
Frags == {BODY_CLOSE, COMMENT_OPEN, COMMENT_CLOSE, <<120>>, <<45>>, <<62>>, <<60>>}

RECURSIVE Concat(_)
Concat(ss) == IF ss = <<>> THEN <<>> ELSE Head(ss) \o Concat(Tail(ss))

ChunkInputs == { Concat(cs) : cs \in UNION { [1..n -> Frags] : n \in 0..MaxChunks } }

\* <html><!--</body>--><p>x</p></body></html>
ExampleDoc ==
    <<60, 104, 116, 109, 108, 62>> \o COMMENT_OPEN \o BODY_CLOSE \o COMMENT_CLOSE
    \o <<60, 112, 62, 120, 60, 47, 112, 62>> \o BODY_CLOSE
    \o <<60, 47, 104, 116, 109, 108, 62>>

Inputs == ChunkInputs \cup {ExampleDoc}

Ports == {80, 8031}

\* config.ws_addr().port() of the running server
WsPort == CHOOSE x \in Ports : x > 80

InitInject ==
    /\ input \in Inputs
    /\ ws_port \in Ports
    /\ out = <<>>
    /\ insert_idx = 0
    /\ inj_pc = "call"
    /\ TaskOff
    /\ WsOff
    /\ RxOff
    /\ PollOff
    /\ ProxyOff
    /\ ProcOff
    /\ ParseOff

\* one call of inject_into(&body, ws_addr)
Inject ==
    /\ inj_pc = "call"
    /\ insert_idx' = InsertIdx(input)
    /\ out' = inject_into(input, ws_port)
    /\ inj_pc' = "done"
    /\ UNCHANGED <<input, ws_port>>
    /\ UNCHANGED notInjVars

NextInject == Inject

SpecInject == InitInject /\ [][NextInject]_vars

(***************************************************************************)
(* What the claims about inject_into speak of, stated without the scan:    *)
(* a position p (0-based) is inside a comment when some `<!--` starts      *)
(* before p and no `-->` starts after that `<!--` and before p.            *)
(***************************************************************************)
StartsAt(s, p, pat) == p < Len(s) /\ StartsWith(RestFrom(s, p), pat)

InComment(s, p) ==
    \E q \in 0..(p - 1) :
        /\ StartsAt(s, q, COMMENT_OPEN)
        /\ \A r \in (q + 1)..(p - 1) : ~StartsAt(s, r, COMMENT_CLOSE)

\* the positions of the `</body>` occurrences outside a comment
Unguarded(s) ==
    { p \in 0..(Len(s) - 1) : StartsAt(s, p, BODY_CLOSE) /\ ~InComment(s, p) }

\* the positions of the `</body>` occurrences inside a comment
Guarded(s) ==
    { p \in 0..(Len(s) - 1) : StartsAt(s, p, BODY_CLOSE) /\ InComment(s, p) }

Min(S) == CHOOSE x \in S : \A y \in S : x <= y
Max(S) == CHOOSE x \in S : \A y \in S : x >= y

\* C1: whenever the buffer holds an unguarded `</body>`, the script is
\* inserted immediately before the first (lowest-index) one, also when the
\* buffer holds several.
C1_InsertBeforeFirst ==
    (inj_pc = "done" /\ Unguarded(input) # {}) =>
        /\ insert_idx = Min(Unguarded(input))
        /\ out = InsertAt(input, Min(Unguarded(input)), Script(ws_port))

\* C2: the insertion point is never a `</body>` that starts inside a comment;
\* for the example document it is the second `</body>` (index 28).
C2_NeverInsideComment ==
    inj_pc = "done" =>
        /\ insert_idx \notin Guarded(input)
        /\ (input = ExampleDoc =>
               /\ insert_idx = 28
               /\ out = InsertAt(ExampleDoc, 28, Script(ws_port)))

\* a call on a buffer whose commented `</body>` comes after an unguarded one
\* has returned, and so has the call on the example document
C2_Witness ==
    /\ inj_pc = "done"
    /\ \/ input = ExampleDoc
       \/ /\ Guarded(input) # {}
          /\ Unguarded(input) # {}
          /\ Max(Guarded(input)) > Max(Unguarded(input))

\* C3: with no `</body>` outside a comment the script is appended after the
\* last input byte, and the output is as long as input and script together.
C3_AppendWhenNoTag ==
    (inj_pc = "done" /\ Unguarded(input) = {}) =>
        /\ insert_idx = Len(input)
        /\ out = input \o Script(ws_port)
        /\ Len(out) = Len(input) + Len(Script(ws_port))

\* a call on a non-empty buffer whose only `</body>` is commented out has
\* returned
C3_Witness ==
    /\ inj_pc = "done"
    /\ Unguarded(input) = {}
    /\ Guarded(input) # {}

(***************************************************************************)
(* The task engine.  An operation is a record; what the environment does   *)
(* with it (which programs are installed, how they exit, which directories *)
(* exist) is fixed by the definitions below.                               *)
(***************************************************************************)
\* paths are sequences of components; an absolute path starts with "/"
BaseWorkdir == <<"/", "proj">>

\* the directories of the file system
Dirs == { <<"/", "proj">>, <<"/", "proj", "a">>, <<"/", "proj", "a", "b">> }

\* a faulty check: every path passes for a directory
is_dir_always(p) == TRUE

\* Path::is_dir
is_dir(p) == p \in Dirs

\* the programs std::process::Command::spawn finds, with the exit status of
\* the process each starts: Option<i32> as a set, {} for death by a signal
ExitOf ==
    [ true |-> {0}, false |-> {1}, killed |-> {} ]

Installed == DOMAIN ExitOf

\* ExitStatus::success
success(status) == status = {0}

\* Option<String> is a set of at most one string: None is {}
CommandOps ==
    { [kind |-> "command", program |-> p, workdir |-> {}] :
          p \in {"true", "false", "killed", "missing"} }
    \cup { [kind |-> "command", program |-> "true", workdir |-> {<<"a">>}],
           [kind |-> "command", program |-> "true", workdir |-> {<<"nodir">>}] }

SetWorkDirOps ==
    { [kind |-> "set-workdir", path |-> p] : p \in { <<"a">>, <<"b">>, <<"nodir">> } }

CopyOps == { [kind |-> "copy"] }

Ops == CommandOps \cup SetWorkDirOps \cup CopyOps

TaskInputs == UNION { [1..n -> Ops] : n \in 0..MaxOps }

\* ---- Context: a stack of frames, each holding at most one WorkDir
EmptyFrame == [workdir |-> {}]

\* Context::fork_task: the caller's frames under one new frame
fork_task(fs) == Append(fs, EmptyFrame)

\* Context::workdir: the innermost frame that holds a WorkDir decides, the
\* base working directory of the configuration otherwise
RECURSIVE workdir(_)
workdir(fs) ==
    IF fs = <<>> THEN BaseWorkdir
    ELSE IF fs[Len(fs)].workdir # {} THEN CHOOSE p \in fs[Len(fs)].workdir : TRUE
    ELSE workdir(SubSeq(fs, 1, Len(fs) - 1))

\* Path::join: an absolute path replaces the base
join(base, p) == IF p # <<>> /\ p[1] = "/" THEN p ELSE base \o p

\* Context::join_workdir
join_workdir(fs, p) == join(workdir(fs), p)

\* ctx.top_frame.insert_var(WorkDir(p))
insert_var(fs, p) == [fs EXCEPT ![Len(fs)] = [workdir |-> {p}]]

\* the context the caller of Task::run holds: its frames are the first
\* CallerDepth of `frames`
CallerCtx(fs) == SubSeq(fs, 1, 1)

\* a faulty run: it works in the caller's own context
TaskCtxShared(fs) == fs

\* let ctx = ctx.fork_task(&self.name);
TaskCtx(fs) == fork_task(fs)

\* a faulty is_failure: no outcome stops the loop
is_failure_never(o) == FALSE

\* Outcome::is_failure, as Task::run reads it
is_failure(o) == o = "Failure"

\* a faulty start: a spawn error is reported as Outcome::Failure
SpawnErrAsFailure(op, cwd) ==
    IF op.program \in Installed /\ is_dir(cwd) THEN "Spawned" ELSE "Failure"

\* command.spawn() in Command::start: Ok(child) or Err with context
SpawnResult(op, cwd) ==
    IF op.program \in Installed /\ is_dir(cwd) THEN "Spawned" ELSE "Err"

\* RunningCommand::finish_with_status
finish_with_status(status) == IF success(status) THEN "Success" ELSE "Failure"

\* the directory Command::start gives the process
CommandDir(op, fs) ==
    IF op.workdir # {} THEN join_workdir(fs, CHOOSE w \in op.workdir : TRUE)
    ELSE workdir(fs)

\* Task::run returns v: its local context is dropped, the caller's is left
Return(v) ==
    /\ task_pc' = "returned"
    /\ result' = v
    /\ frames' = CallerCtx(frames)
    /\ child' = {}

\* Task::run is called: the context is forked, the loop is entered
TaskRunStart ==
    /\ task_pc \in {"idle", "returned"}
    /\ runs < MaxRuns
    /\ frames' = TaskCtx(frames)
    /\ task_pc' = "loop"
    /\ op_idx' = 1
    /\ started' = <<>>
    /\ outcomes' = <<>>
    /\ cwds' = <<>>
    /\ runs' = runs + 1
    /\ UNCHANGED <<operations, child, result>>
    /\ UNCHANGED notTaskVars

\* the operation the loop is at
CurOp == operations[op_idx]

AtOp(kind) ==
    /\ task_pc = "loop"
    /\ op_idx <= Len(operations)
    /\ CurOp.kind = kind

\* op.run of a Command, first half: Command::start spawns the process; a
\* spawn error leaves Task::run through `?`
CommandStart ==
    /\ AtOp("command")
    /\ LET cwd == CommandDir(CurOp, frames)
           r == SpawnResult(CurOp, cwd)
       IN /\ started' = Append(started, op_idx)
          /\ cwds' = Append(cwds, cwd)
          /\ IF r = "Spawned"
             THEN /\ child' = {[program |-> CurOp.program, dir |-> cwd]}
                  /\ task_pc' = "wait"
                  /\ UNCHANGED <<frames, result, outcomes, op_idx>>
             ELSE IF is_failure(r)
             THEN /\ outcomes' = Append(outcomes, r)
                  /\ Return("Failure")
                  /\ UNCHANGED op_idx
             ELSE /\ outcomes' = Append(outcomes, r)
                  /\ Return("Err")
                  /\ UNCHANGED op_idx
    /\ UNCHANGED <<operations, runs>>
    /\ UNCHANGED notTaskVars

\* what RunningCommand::finish returns for the child running `program`:
\* the outcome of its exit status, or the error of self.child.wait()
FinishResults(program) == {finish_with_status(ExitOf[program]), "Err"}

\* op.run of a Command, second half: RunningCommand::finish waits for the
\* child and maps its status, or fails; Task::run stops on an error and on
\* a Failure
CommandFinish ==
    /\ task_pc = "wait"
    /\ \E outcome \in FinishResults((CHOOSE x \in child : TRUE).program) :
          /\ outcomes' = Append(outcomes, outcome)
          /\ IF outcome = "Err"
             THEN /\ Return("Err")
                  /\ UNCHANGED op_idx
             ELSE IF is_failure(outcome)
             THEN /\ Return("Failure")
                  /\ UNCHANGED op_idx
             ELSE /\ op_idx' = op_idx + 1
                  /\ task_pc' = "loop"
                  /\ child' = {}
                  /\ UNCHANGED <<frames, result>>
    /\ UNCHANGED <<operations, started, cwds, runs>>
    /\ UNCHANGED notTaskVars

\* op.run of a SetWorkDir (src/op/workdir.rs:31-46): it returns the error
\* of bail! with the context as it found it, or writes the top frame
SetWorkDirRun ==
    /\ AtOp("set-workdir")
    /\ LET new_workdir == join_workdir(frames, CurOp.path)
       IN /\ started' = Append(started, op_idx)
          /\ cwds' = Append(cwds, new_workdir)
          /\ IF ~is_dir(new_workdir)
             THEN /\ outcomes' = Append(outcomes, "Err")
                  /\ task_pc' = "bailed"
                  /\ UNCHANGED <<frames, result, child, op_idx>>
             ELSE /\ outcomes' = Append(outcomes, "Success")
                  /\ frames' = insert_var(frames, new_workdir)
                  /\ op_idx' = op_idx + 1
                  /\ UNCHANGED <<task_pc, result, child>>
    /\ UNCHANGED <<operations, runs>>
    /\ UNCHANGED notTaskVars

\* the `?` of Task::run on the error SetWorkDir::run returned: the run ends
\* with that error
SetWorkDirPropagate ==
    /\ task_pc = "bailed"
    /\ Return("Err")
    /\ UNCHANGED <<operations, op_idx, started, outcomes, cwds, runs>>
    /\ UNCHANGED notTaskVars

\* op.run of a Copy: Copy::start is todo!(), the thread unwinds
CopyStart ==
    /\ AtOp("copy")
    /\ started' = Append(started, op_idx)
    /\ cwds' = Append(cwds, workdir(frames))
    /\ outcomes' = Append(outcomes, "Panic")
    /\ Return("Panic")
    /\ UNCHANGED <<operations, op_idx, runs>>
    /\ UNCHANGED notTaskVars

\* the loop has run every operation: Ok(Outcome::Success)
TaskRunEnd ==
    /\ task_pc = "loop"
    /\ op_idx > Len(operations)
    /\ Return("Success")
    /\ UNCHANGED <<operations, op_idx, started, outcomes, cwds, runs>>
    /\ UNCHANGED notTaskVars

InitTask ==
    /\ InjectOff
    /\ WsOff
    /\ RxOff
    /\ PollOff
    /\ ProxyOff
    /\ ProcOff
    /\ ParseOff
    /\ operations \in TaskInputs
    /\ frames = <<EmptyFrame>>
    /\ task_pc = "idle"
    /\ op_idx = 0
    /\ child = {}
    /\ result = "None"
    /\ started = <<>>
    /\ outcomes = <<>>
    /\ cwds = <<>>
    /\ runs = 0

NextTask ==
    \/ TaskRunStart
    \/ CommandStart
    \/ CommandFinish
    \/ SetWorkDirRun
    \/ SetWorkDirPropagate
    \/ CopyStart
    \/ TaskRunEnd

SpecTask == InitTask /\ [][NextTask]_vars

(***************************************************************************)
(* Claims about Task::run                                                  *)
(***************************************************************************)
\* C4: operations are started in declaration order; an operation whose
\* outcome is Failure makes the task return Failure with no later operation
\* started; the task returns Success only when every operation gave Success.
C4_FailFast ==
    /\ Len(started) <= Len(operations)
    /\ \A k \in 1..Len(started) : started[k] = k
    /\ \A k \in 1..Len(outcomes) :
           outcomes[k] = "Failure" =>
               /\ task_pc = "returned"
               /\ result = "Failure"
               /\ Len(started) = k
    /\ (task_pc = "returned" /\ result = "Success") =>
           /\ Len(outcomes) = Len(operations)
           /\ \A k \in 1..Len(outcomes) : outcomes[k] = "Success"

\* a task [A: Success, B: Failure, C] has returned Failure without starting C
C4_Witness ==
    /\ task_pc = "returned"
    /\ result = "Failure"
    /\ Len(operations) = 3
    /\ outcomes = <<"Success", "Failure">>
    /\ started = <<1, 2>>

\* the working directory the operations before position k of ops have set,
\* when each of them succeeded, starting from the base working directory
RECURSIVE WorkdirBefore(_, _)
WorkdirBefore(ops, k) ==
    IF k <= 1 THEN BaseWorkdir
    ELSE LET w == WorkdirBefore(ops, k - 1)
         IN IF ops[k - 1].kind = "set-workdir" THEN w \o ops[k - 1].path ELSE w

\* the directory operation k of ops works in, by the specification
WorkdirOf(ops, k) ==
    LET w == WorkdirBefore(ops, k)
    IN CASE ops[k].kind = "set-workdir" -> w \o ops[k].path
         [] ops[k].kind = "command" /\ ops[k].workdir # {} ->
                w \o (CHOOSE x \in ops[k].workdir : TRUE)
         [] OTHER -> w

\* C7: a directory set by SetWorkDir is the one every later operation of the
\* same run resolves, and the caller's context resolves the base working
\* directory at all times: before, during and after every run, however the
\* run ends.
C7_WorkdirScoped ==
    /\ workdir(CallerCtx(frames)) = BaseWorkdir
    /\ task_pc \in {"idle", "returned"} => frames = <<EmptyFrame>>
    /\ \A k \in 1..Len(cwds) : cwds[k] = WorkdirOf(operations, k)

\* in a second run of a task, a command placed after a successful SetWorkDir
\* has been started in the directory that was set
C7_Witness ==
    /\ runs = 2
    /\ \E k \in 2..Len(cwds) :
           /\ operations[k - 1].kind = "set-workdir"
           /\ operations[k].kind = "command"
           /\ cwds[k] # BaseWorkdir

\* C8: a Command whose process cannot be spawned makes Task::run return an
\* error (neither Failure nor Success) with no later operation started, and
\* an outcome Failure comes only from a process that was started and did not
\* exit with status 0.
C8_SpawnFailureIsError ==
    /\ \A k \in 1..Len(started) :
           ( /\ operations[k].kind = "command"
             /\ (operations[k].program \notin Installed \/ ~is_dir(cwds[k])) ) =>
               /\ task_pc = "returned"
               /\ result = "Err"
               /\ Len(started) = k
               /\ outcomes[k] = "Err"
    /\ \A k \in 1..Len(outcomes) :
           outcomes[k] = "Failure" =>
               /\ operations[k].kind = "command"
               /\ operations[k].program \in Installed
               /\ is_dir(cwds[k])
               /\ ExitOf[operations[k].program] # {0}
    /\ (task_pc = "returned" /\ result = "Failure") =>
           /\ outcomes # <<>>
           /\ outcomes[Len(outcomes)] = "Failure"

\* a task whose second of three operations is a Command for a program that
\* is not installed has returned an error
C8_Witness ==
    /\ task_pc = "returned"
    /\ result = "Err"
    /\ Len(operations) = 3
    /\ started = <<1, 2>>
    /\ operations[2].kind = "command"
    /\ operations[2].program = "missing"

\* the step runs the SetWorkDir the loop is at
SetWorkDirStep ==
    /\ task_pc = "loop"
    /\ op_idx <= Len(operations)
    /\ operations[op_idx].kind = "set-workdir"
    /\ Len(started') = Len(started) + 1

\* C19: a SetWorkDir resolves its path against the working directory its
\* context has at that moment; when that is not a directory it returns an
\* error with every frame, and so the context's working directory, as it
\* was (and the run then ends with that error, no further operation
\* started); otherwise the outcome is Success, the top frame holds the
\* resolved path, the frames below are as they were, and the context's
\* working directory is the resolved path, against which the next SetWorkDir
\* resolves.
C19_SetWorkDirTopFrame ==
    /\ [][ SetWorkDirStep =>
            LET resolved == workdir(frames) \o operations[op_idx].path
                top == Len(frames)
            IN /\ cwds'[Len(cwds')] = resolved
               /\ IF resolved \in Dirs
                  THEN /\ outcomes'[Len(outcomes')] = "Success"
                       /\ task_pc' = "loop"
                       /\ op_idx' = op_idx + 1
                       /\ Len(frames') = top
                       /\ frames'[top].workdir = {resolved}
                       /\ \A i \in 1..(top - 1) : frames'[i] = frames[i]
                       /\ workdir(frames') = resolved
                  ELSE /\ outcomes'[Len(outcomes')] = "Err"
                       /\ task_pc' = "bailed"
                       /\ frames' = frames
                       /\ workdir(frames') = workdir(frames) ]_vars
    /\ [][ task_pc = "bailed" =>
               /\ task_pc' = "returned"
               /\ result' = "Err"
               /\ started' = started
               /\ outcomes' = outcomes ]_vars

\* two SetWorkDir in a row, "a" and then "b", have both succeeded and a
\* third, of a path that is no directory, has bailed: the second resolved
\* /proj/a/b, which is still the working directory after the failure, and
\* the caller's frame holds none
C19_Witness ==
    /\ task_pc = "bailed"
    /\ Len(operations) = 3 /\ Len(outcomes) = 3
    /\ operations[1] = [kind |-> "set-workdir", path |-> <<"a">>]
    /\ operations[2] = [kind |-> "set-workdir", path |-> <<"b">>]
    /\ operations[3] = [kind |-> "set-workdir", path |-> <<"nodir">>]
    /\ outcomes[1] = "Success" /\ outcomes[2] = "Success"
    /\ outcomes[3] = "Err"
    /\ cwds[2] = <<"/", "proj", "a", "b">>
    /\ workdir(frames) = <<"/", "proj", "a", "b">>
    /\ frames[1] = EmptyFrame

(***************************************************************************)
(* RunningCommand (src/op/command.rs:155-184): the handle Command::start   *)
(* returns, and the child process behind it.  Every method takes           *)
(* `&mut self`, so the calls on one handle follow one another.             *)
(***************************************************************************)
\* the ExitStatus of a process: its exit code, {} for death by a signal
ExitStatuses == { {0}, {1}, {} }

\* the process has exited, and the status it left
Exited == exit_status # {}
TheStatus == CHOOSE st \in exit_status : TRUE

\* no call on the handle is in progress
HandleFree == IF calls = <<>> THEN TRUE ELSE calls[Len(calls)].ret # "blocked"

\* the kernel has discarded the status of the process: the process has
\* exited while the parent ignores SIGCHLD, so there is no child to wait for
\* (ECHILD) and no process to signal (ESRCH)
Lost(st, ignored) == ignored /\ st # {}

\* self.child.kill(): a child whose status std has not collected yet gets a
\* SIGKILL, which succeeds for a running process and for one that has exited
\* and is not yet waited for, and fails with ESRCH for one the kernel has
\* discarded (`lost`); for a child whose status std has collected
\* (self.status is Some) std sends nothing and returns, depending on its
\* version, Err(InvalidInput) (what std did when this code was written) or
\* Ok(()) (`ok_after`)
KillResult(collected, ok_after, lost) ==
    IF collected
    THEN IF ok_after THEN "Ok" ELSE "Err"
    ELSE IF lost THEN "Err" ELSE "Ok"

\* RunningCommand::cancel: self.child.kill()?; Ok(())
cancel(collected, ok_after, lost) ==
    IF KillResult(collected, ok_after, lost) = "Err" THEN "Err" ELSE "Ok"

\* self.child.try_wait(): Ok(None) while the process runs, Ok(Some(status))
\* once it has exited, Err when the kernel has discarded the status
try_wait(st, ignored) ==
    [err |-> Lost(st, ignored), status |-> IF Lost(st, ignored) THEN {} ELSE st]

\* self.child.wait(), returning for a process that has exited with `st`
wait(st, ignored) ==
    [err |-> Lost(st, ignored), status |-> IF Lost(st, ignored) THEN {} ELSE st]

\* a faulty try_finish: it reports an outcome for a process that still runs
try_finish_eager(st, ignored) ==
    LET w == try_wait(st, ignored)
    IN IF w.err THEN "Err"
       ELSE IF w.status = {} THEN "Failure"
       ELSE finish_with_status(CHOOSE x \in w.status : TRUE)

\* RunningCommand::try_finish:
\*   let status = self.child.try_wait().context(..)?;
\*   Ok(status.map(|status| finish_with_status(..)))
try_finish(st, ignored) ==
    LET w == try_wait(st, ignored)
    IN IF w.err THEN "Err"
       ELSE IF w.status = {} THEN "None"
       ELSE finish_with_status(CHOOSE x \in w.status : TRUE)

\* RunningCommand::finish, once wait() returns:
\*   let status = self.child.wait().context(..)?;
\*   Ok(finish_with_status(..))
finish(st, ignored) ==
    LET w == wait(st, ignored)
    IN IF w.err THEN "Err"
       ELSE finish_with_status(CHOOSE x \in w.status : TRUE)

\* the process ends: by itself with some status, or by the SIGKILL it got
ProcExit ==
    /\ proc = "running"
    /\ proc' = "exited"
    /\ \E st \in (IF kill_sent THEN {{}} ELSE ExitStatuses) : exit_status' = {st}
    /\ UNCHANGED <<reaped, kill_sent, calls, kill_reaped_ok, sigchld_ignored>>
    /\ UNCHANGED notProcVars

\* finish is called: self.child.wait() blocks while the process runs
FinishCall ==
    /\ proc \in {"running", "exited"}
    /\ HandleFree
    /\ Len(calls) < MaxCalls
    /\ calls' = Append(calls, [op |-> "finish", ret |-> "blocked", exited |-> Exited])
    /\ UNCHANGED <<proc, exit_status, reaped, kill_sent, kill_reaped_ok,
                   sigchld_ignored>>
    /\ UNCHANGED notProcVars

\* wait() returns once the process has exited, with its status (which std
\* keeps in the handle) or with an error; finish maps it
FinishReturn ==
    /\ ~HandleFree
    /\ Exited
    /\ calls' = [calls EXCEPT ![Len(calls)].ret = finish(exit_status, sigchld_ignored)]
    /\ reaped' = (reaped \/ ~wait(exit_status, sigchld_ignored).err)
    /\ UNCHANGED <<proc, exit_status, kill_sent, kill_reaped_ok, sigchld_ignored>>
    /\ UNCHANGED notProcVars

\* try_finish is called and returns
TryFinish ==
    /\ proc \in {"running", "exited"}
    /\ HandleFree
    /\ Len(calls) < MaxCalls
    /\ calls' = Append(calls, [op |-> "try_finish",
                               ret |-> try_finish(exit_status, sigchld_ignored),
                               exited |-> Exited])
    /\ reaped' = (reaped \/ try_wait(exit_status, sigchld_ignored).status # {})
    /\ UNCHANGED <<proc, exit_status, kill_sent, kill_reaped_ok, sigchld_ignored>>
    /\ UNCHANGED notProcVars

\* cancel is called and returns
Cancel ==
    /\ proc \in {"running", "exited"}
    /\ HandleFree
    /\ Len(calls) < MaxCalls
    /\ calls' = Append(calls, [op |-> "cancel",
                               ret |-> cancel(reaped, kill_reaped_ok,
                                              Lost(exit_status, sigchld_ignored)),
                               exited |-> Exited])
    /\ kill_sent' = (kill_sent \/ proc = "running")
    /\ UNCHANGED <<proc, exit_status, reaped, kill_reaped_ok, sigchld_ignored>>
    /\ UNCHANGED notProcVars

\* Command::start has spawned the process and returned the handle
InitProc ==
    /\ proc = "running"
    /\ exit_status = {}
    /\ reaped = FALSE
    /\ kill_sent = FALSE
    /\ calls = <<>>
    /\ kill_reaped_ok \in BOOLEAN
    /\ sigchld_ignored \in BOOLEAN
    /\ InjectOff
    /\ TaskOff
    /\ WsOff
    /\ RxOff
    /\ PollOff
    /\ ProxyOff
    /\ ParseOff

NextProc ==
    \/ ProcExit
    \/ FinishCall
    \/ FinishReturn
    \/ TryFinish
    \/ Cancel

SpecProc == InitProc /\ [][NextProc]_vars

(***************************************************************************)
(* Claims about RunningCommand                                             *)
(***************************************************************************)
\* C11 (as stated): cancel succeeds in every state of the process: while it
\* runs (and then the process ends by the kill), after it has exited, and
\* when it is called again; a cancel on a process that has exited changes
\* nothing; and cancel returns without waiting for the exit.
C11_CancelIdempotent ==
    /\ [](\A k \in 1..Len(calls) :
              calls[k].op = "cancel" => calls[k].ret = "Ok")
    /\ []((kill_sent /\ Exited) => exit_status = {{}})
    /\ [][ (Len(calls') > Len(calls) /\ calls'[Len(calls')].op = "cancel") =>
               /\ HandleFree'
               /\ exit_status' = exit_status
               /\ (Exited => kill_sent' = kill_sent) ]_vars

\* the outcome the exit status of the process stands for
ExpectedOutcome == IF exit_status = {{0}} THEN "Success" ELSE "Failure"

\* C17 (as stated): try_finish returns at once, None when the process still
\* ran at the call and Some(outcome) when it had exited; finish returns only
\* once the process has exited, with the outcome; both give Success for exit
\* status 0 and Failure for every other status, so all the outcomes one
\* handle reports are the same.
C17_FinishAgree ==
    /\ \A k \in 1..Len(calls) :
           /\ calls[k].op = "try_finish" =>
                  calls[k].ret = IF calls[k].exited THEN ExpectedOutcome ELSE "None"
           /\ calls[k].op = "finish" =>
                  /\ calls[k].ret \in {"blocked", "Success", "Failure"}
                  /\ calls[k].ret # "blocked" =>
                         Exited /\ calls[k].ret = ExpectedOutcome
    /\ (HandleFree /\ Len(calls) < MaxCalls /\ proc # "off") => ENABLED TryFinish
    /\ (~HandleFree /\ ~Exited) => ~ENABLED FinishReturn
    /\ \A j, k \in 1..Len(calls) :
           ( /\ calls[j].op \in {"finish", "try_finish"}
             /\ calls[k].op \in {"finish", "try_finish"}
             /\ calls[j].ret \in {"Success", "Failure"}
             /\ calls[k].ret \in {"Success", "Failure"} ) =>
               calls[j].ret = calls[k].ret

\* what finish and try_finish return for the process that has exited: its
\* outcome, or the error of waiting for a child the kernel has discarded
ExpectedReturn == IF sigchld_ignored THEN "Err" ELSE ExpectedOutcome

\* C17 (amended): try_finish returns at once, None when the process still
\* ran at the call; finish returns only once the process has exited; for a
\* process that has exited both return its outcome (Success for exit status
\* 0, Failure for every other status), or both return an error when waiting
\* for the process fails; all the outcomes one handle reports are the same.
C17_FinishAgreeOrErr ==
    /\ \A k \in 1..Len(calls) :
           /\ calls[k].op = "try_finish" =>
                  calls[k].ret = IF calls[k].exited THEN ExpectedReturn ELSE "None"
           /\ calls[k].op = "finish" =>
                  /\ calls[k].ret \in {"blocked", "Success", "Failure", "Err"}
                  /\ calls[k].ret # "blocked" =>
                         Exited /\ calls[k].ret = ExpectedReturn
    /\ (HandleFree /\ Len(calls) < MaxCalls /\ proc # "off") => ENABLED TryFinish
    /\ (~HandleFree /\ ~Exited) => ~ENABLED FinishReturn
    /\ \A j, k \in 1..Len(calls) :
           ( /\ calls[j].op \in {"finish", "try_finish"}
             /\ calls[k].op \in {"finish", "try_finish"}
             /\ calls[j].ret \in {"Success", "Failure"}
             /\ calls[k].ret \in {"Success", "Failure"} ) =>
               calls[j].ret = calls[k].ret

\* a process that ended with status 1: try_finish gave None while it ran, a
\* finish called while it ran returned Failure after the exit, and a
\* try_finish after that gave Failure too
C17_Witness ==
    /\ Len(calls) = 3
    /\ ~sigchld_ignored
    /\ exit_status = {{1}}
    /\ calls[1] = [op |-> "try_finish", ret |-> "None", exited |-> FALSE]
    /\ calls[2] = [op |-> "finish", ret |-> "Failure", exited |-> FALSE]
    /\ calls[3] = [op |-> "try_finish", ret |-> "Failure", exited |-> TRUE]

(***************************************************************************)
(* ProgramAndArgs::try_from (src/op/command.rs:37-69).  A string is a      *)
(* sequence of characters.                                                 *)
(***************************************************************************)
\* the characters of the inputs: two that are whitespace and two that are not
Chars == {"a", "-", " ", "\t"}

\* char::is_whitespace, on Chars
is_whitespace(c) == c \in {" ", "\t"}

\* String::is_empty / Vec::is_empty
is_empty(s) == s = <<>>

\* s.chars().all(|c| c.is_whitespace())
all_whitespace(s) == \A i \in 1..Len(s) : is_whitespace(s[i])

\* the position of the first whitespace character of s, Len(s) + 1 without one
FirstWhitespace(s) ==
    Min({ i \in 1..(Len(s) + 1) : i > Len(s) \/ is_whitespace(s[i]) })

\* a faulty split, as s.split(' ') does it: every whitespace character
\* separates two pieces, empty ones included
RECURSIVE split_each(_)
split_each(s) ==
    LET n == FirstWhitespace(s)
    IN IF n > Len(s) THEN <<s>>
       ELSE <<SubSeq(s, 1, n - 1)>> \o split_each(SubSeq(s, n + 1, Len(s)))

\* str::split_whitespace: the maximal pieces without whitespace, in order
RECURSIVE split_whitespace(_)
split_whitespace(s) ==
    IF s = <<>> THEN <<>>
    ELSE IF is_whitespace(s[1]) THEN split_whitespace(Tail(s))
    ELSE LET n == FirstWhitespace(s)
         IN <<SubSeq(s, 1, n - 1)>> \o split_whitespace(SubSeq(s, n, Len(s)))

\* the arms of try_from
try_from_simple(s) ==
    IF is_empty(s) \/ all_whitespace(s)
    THEN [kind |-> "Err", e |-> "command string is empty"]
    ELSE LET split == split_whitespace(s)
         IN [kind |-> "Ok", program |-> Head(split), args |-> Tail(split)]

try_from_explicit(v) ==
    IF is_empty(v)
    THEN [kind |-> "Err", e |-> "empty list as command specification"]
    ELSE IF \E i \in 1..Len(v) : is_empty(v[i]) \/ all_whitespace(v[i])
    THEN [kind |-> "Err", e |-> "empty fragment in command specification"]
    ELSE [kind |-> "Ok", program |-> v[1], args |-> Tail(v)]

\* impl TryFrom<RawProgramAndArgs> for ProgramAndArgs
try_from(raw) ==
    IF raw.kind = "Simple" THEN try_from_simple(raw.s) ELSE try_from_explicit(raw.v)

\* the strings of at most n characters
Strings(n) == UNION { [1..k -> Chars] : k \in 0..n }

\* the elements of a list: "", " ", "a", "-", " a", "a -"
Fragments ==
    { <<>>, <<" ">>, <<"a">>, <<"-">>, <<" ", "a">>, <<"a", " ", "-">> }

RawInputs ==
    { [kind |-> "Simple", s |-> s] : s \in Strings(MaxStrLen) }
    \cup
    { [kind |-> "Explicit", v |-> v] :
          v \in UNION { [1..n -> Fragments] : n \in 0..MaxFrags } }

InitParse ==
    /\ src \in RawInputs
    /\ parsed = [kind |-> "none"]
    /\ parse_pc = "call"
    /\ InjectOff
    /\ TaskOff
    /\ WsOff
    /\ RxOff
    /\ PollOff
    /\ ProxyOff
    /\ ProcOff

\* one call of ProgramAndArgs::try_from(src)
Parse ==
    /\ parse_pc = "call"
    /\ parsed' = try_from(src)
    /\ parse_pc' = "done"
    /\ UNCHANGED src
    /\ UNCHANGED notParseVars

NextParse ==
    \/ Parse

SpecParse == InitParse /\ [][NextParse]_vars

(***************************************************************************)
(* Claims about the parsing                                                *)
(***************************************************************************)
\* a string that is not empty and not all whitespace
NonBlank(t) == \E i \in 1..Len(t) : t[i] \notin {" ", "\t"}

\* the positions of s where a piece without whitespace starts, and the
\* position where the piece that starts at p ends
PieceStarts(s) ==
    { i \in 1..Len(s) : s[i] \notin {" ", "\t"} /\ (i = 1 \/ s[i - 1] \in {" ", "\t"}) }
PieceEnd(s, p) ==
    Min({ j \in p..Len(s) : j = Len(s) \/ s[j + 1] \in {" ", "\t"} })

\* the k-th piece of s
Piece(s, k) ==
    LET p == CHOOSE i \in PieceStarts(s) :
                 Cardinality({ j \in PieceStarts(s) : j < i }) = k - 1
    IN SubSeq(s, p, PieceEnd(s, p))

\* what the specification has rejected
MustReject(raw) ==
    IF raw.kind = "Simple" THEN ~NonBlank(raw.s)
    ELSE raw.v = <<>> \/ \E i \in 1..Len(raw.v) : ~NonBlank(raw.v[i])

\* C12: the parsing rejects exactly the empty or all-whitespace string, the
\* empty list and the list with an empty or all-whitespace element; every
\* ProgramSpec it produces has a program and arguments that are non-empty
\* and not all whitespace; from a string these are its whitespace-separated
\* pieces in order, from a list its elements in order, the first as program.
C12_ParsedWellFormed ==
    parse_pc = "done" =>
        /\ parsed.kind \in {"Ok", "Err"}
        /\ parsed.kind = "Err" <=> MustReject(src)
        /\ parsed.kind = "Ok" =>
               LET tokens == <<parsed.program>> \o parsed.args
               IN /\ \A i \in 1..Len(tokens) : NonBlank(tokens[i])
                  /\ src.kind = "Explicit" => tokens = src.v
                  /\ src.kind = "Simple" =>
                         /\ Len(tokens) = Cardinality(PieceStarts(src.s))
                         /\ \A k \in 1..Len(tokens) : tokens[k] = Piece(src.s, k)

\* the string "a -\ta" (a blank and a tab between) has been parsed into the
\* program "a" and the two arguments "-" and "a", in this order
C12_Witness ==
    /\ parse_pc = "done"
    /\ src = [kind |-> "Simple", s |-> <<"a", " ", "-", "\t", "a">>]
    /\ parsed = [kind |-> "Ok", program |-> <<"a">>,
                 args |-> << <<"-">>, <<"a">> >>]

(***************************************************************************)
(* serve_ws (src/http.rs:157-186): the accept loop and the refresh thread  *)
(* share the Mutex<Vec<WebSocket>>; wait_until_socket_open                 *)
(* (src/http.rs:188-206) runs inside the refresh thread.                   *)
(***************************************************************************)
\* const POLL_PERIOD: Duration = Duration::from_millis(20);
POLL_PERIOD == 20
\* const PORT_WAIT_TIMEOUT: Duration = Duration::from_secs(3);
PORT_WAIT_TIMEOUT == 3000

\* the inbound connections, numbered in the order server.incoming() yields them
Conns == 1..MaxConns

\* how long one TcpStream::connect_timeout(&target, POLL_PERIOD) may take, in
\* ms: at once (refused), the whole period, or longer than the period
ConnectTimes == {0, POLL_PERIOD, 2 * POLL_PERIOD}

\* POLL_PERIOD.checked_sub(before_connect.elapsed()): None is {}
checked_sub(a, b) == IF a >= b THEN {a - b} ELSE {}

\* a faulty loop condition: it reads a clock restarted in every iteration
BudgetLeftAlways(e) == TRUE

\* while start_wait.elapsed() < PORT_WAIT_TIMEOUT
BudgetLeft(e) == e < PORT_WAIT_TIMEOUT

\* the time one failed iteration of the loop takes: the connect, then the
\* sleep of what is left of the period
FailedIterationTime(d) ==
    LET remaining == checked_sub(POLL_PERIOD, d)
    IN IF remaining # {} THEN d + (CHOOSE r \in remaining : TRUE) ELSE d

\* ---- wait_until_socket_open
\* one iteration of the loop: the connect succeeds and the function returns,
\* or it fails and the thread sleeps to the end of the period
PollAttempt ==
    /\ poll_pc = "run"
    /\ BudgetLeft(elapsed)
    /\ \E ok \in BOOLEAN, d \in ConnectTimes :
           IF ok
           THEN /\ elapsed' = elapsed + d
                /\ poll_pc' = "returned"
                /\ poll_result' = "open"
           ELSE /\ elapsed' = elapsed + FailedIterationTime(d)
                /\ UNCHANGED <<poll_pc, poll_result>>
    /\ UNCHANGED notPollVars

\* the budget is used up: the warning is printed and the function returns
PollTimeout ==
    /\ poll_pc = "run"
    /\ ~BudgetLeft(elapsed)
    /\ poll_pc' = "returned"
    /\ poll_result' = "timeout"
    /\ UNCHANGED elapsed
    /\ UNCHANGED notPollVars

\* ---- the registry
\* a faulty drain: the sockets are closed and the entries are kept
ClearSocketsKeep(s) == s

\* Vec::clear: the vector is empty afterwards
ClearSockets(s) == <<>>

\* a faulty registration: the new connection replaces the vector
PushSocketReplace(s, c) == <<c>>

\* Vec::push
PushSocket(s, c) == Append(s, c)

\* the connections of the vector, and how often one occurs in it
Registered == { sockets[i] : i \in 1..Len(sockets) }
Occurrences(s, c) == Cardinality({ i \in 1..Len(s) : s[i] = c })

\* if let Err(e) = run_server(..) { let _ = errors_tx.send(e); } and the
\* same around serve_ws: the error is sent to the supervisor, or, when the
\* supervisor's Receiver is gone (`rx` is false), send returns
\* Err(SendError(e)), which `let _ =` discards: nothing is sent
ReportErr(ch, e, rx) == IF rx THEN Append(ch, e) ELSE ch

\* the supervisor drops its Receiver of the error channel (it is outside
\* this code, and can do so at any time)
DropErrorsReceiver ==
    /\ errors_rx
    /\ errors_rx' = FALSE
    /\ UNCHANGED <<injVars, taskVars, wsVars, chanVars, pollVars, proxyVars,
                   procVars, parseVars>>

\* the end of a thread that owns a clone of the Arc around the vector: when
\* it is the last of the two owners (`last`), the vector is dropped and with
\* it every WebSocket still in it, which closes the connection
DropRegistry(last) ==
    IF last
    THEN /\ closes' = [c \in Conns |-> closes[c] + Occurrences(sockets, c)]
         /\ sockets' = <<>>
    ELSE UNCHANGED <<sockets, closes>>

\* serve_ws returns Err(e): its `sockets` goes out of scope, and the closure
\* of `run` sends the error to the supervisor
WsReturnErr ==
    /\ accept_pc' = "ended"
    /\ errors' = ReportErr(errors, "serve_ws", errors_rx)
    /\ DropRegistry(refresh_pc = "ended")

\* ---- the accept loop
\* let server = TcpListener::bind(config.ws_addr())?;
AcceptBind ==
    /\ accept_pc = "bind"
    /\ \E ok \in BOOLEAN :
           IF ok THEN accept_pc' = "incoming" /\ UNCHANGED <<errors, sockets, closes>>
           ELSE WsReturnErr
    /\ UNCHANGED <<hs_failed, cur, next_conn, lock, refresh_pc,
                   queue, sent, sender_alive, drained, target, handled, send_errs>>
    /\ UNCHANGED <<pollVars, notWsVars>>

\* for stream in server.incoming(): the next connection arrives; `stream?`
\* leaves serve_ws on an accept error
AcceptIncoming ==
    /\ accept_pc = "incoming"
    /\ \E ok \in BOOLEAN :
           IF ok
           THEN /\ next_conn < MaxConns
                /\ next_conn' = next_conn + 1
                /\ cur' = next_conn + 1
                /\ accept_pc' = "handshake"
                /\ UNCHANGED <<errors, sockets, closes>>
           ELSE /\ WsReturnErr
                /\ UNCHANGED <<next_conn, cur>>
    /\ UNCHANGED <<hs_failed, lock, refresh_pc, queue, sent,
                   sender_alive, drained, target, handled, send_errs>>
    /\ UNCHANGED <<pollVars, notWsVars>>

\* let websocket = tungstenite::accept(stream)?; a failed handshake drops
\* the stream and leaves serve_ws through `?`
AcceptHandshake ==
    /\ accept_pc = "handshake"
    /\ \E ok \in BOOLEAN :
           IF ok
           THEN /\ accept_pc' = "lock"
                /\ UNCHANGED <<hs_failed, cur, errors, sockets, closes>>
           ELSE /\ hs_failed' = hs_failed \cup {cur}
                /\ cur' = 0
                /\ WsReturnErr
    /\ UNCHANGED <<next_conn, lock, refresh_pc, queue, sent,
                   sender_alive, drained, target, handled, send_errs>>
    /\ UNCHANGED <<pollVars, notWsVars>>

\* sockets.lock().unwrap(), in the accept loop
AcceptLock ==
    /\ accept_pc = "lock"
    /\ lock = "free"
    /\ lock' = "accept"
    /\ accept_pc' = "push"
    /\ UNCHANGED <<sockets, closes, hs_failed, cur, next_conn, refresh_pc, queue,
                   sent, sender_alive, drained, errors, target, handled, send_errs>>
    /\ UNCHANGED <<pollVars, notWsVars>>

\* .push(websocket); the guard is dropped at the end of the statement
AcceptPush ==
    /\ accept_pc = "push"
    /\ lock = "accept"
    /\ sockets' = PushSocket(sockets, cur)
    /\ cur' = 0
    /\ lock' = "free"
    /\ accept_pc' = "incoming"
    /\ UNCHANGED <<closes, hs_failed, next_conn, refresh_pc, queue, sent,
                   sender_alive, drained, errors, target, handled, send_errs>>
    /\ UNCHANGED <<pollVars, notWsVars>>

\* ---- the refresh channel (the sender is outside this code)
\* the Receiver exists: it is moved into the refresh thread, which `run`
\* spawns with auto_reload only (without it `run` drops it on return) and
\* which drops it when its loop ends
ReceiverAlive == refresh_pc \notin {"off", "ended"}

\* Sender::send(()): the event is queued, or Err(SendError) without a
\* Receiver
SendRefresh ==
    /\ sender_alive
    /\ sent + send_errs < MaxEvents
    /\ IF ReceiverAlive
       THEN /\ sent' = sent + 1
            /\ queue' = queue + 1
            /\ UNCHANGED send_errs
       ELSE /\ send_errs' = send_errs + 1
            /\ UNCHANGED <<sent, queue>>
    /\ UNCHANGED <<sockets, closes, hs_failed, accept_pc, cur, next_conn, lock,
                   refresh_pc, sender_alive, drained, errors, target, handled>>
    /\ UNCHANGED <<pollVars, notWsVars>>

DropSender ==
    /\ sender_alive
    /\ sender_alive' = FALSE
    /\ UNCHANGED <<sockets, closes, hs_failed, accept_pc, cur, next_conn, lock,
                   refresh_pc, queue, sent, drained, errors, target, handled, send_errs>>
    /\ UNCHANGED <<pollVars, notWsVars>>

\* ---- the refresh thread
\* a faulty loop: the next event is taken while the last one is waited for
AtRecvOrWait == refresh_pc \in {"recv", "wait"}

\* the thread is at the head of `for _ in refresh`, in Receiver::recv
AtRecv == refresh_pc = "recv"

\* a faulty handler: the mutex is taken before the poll and held across it
RefreshRecvLocked ==
    /\ AtRecv
    /\ queue > 0
    /\ lock = "free"
    /\ lock' = "refresh"
    /\ queue' = queue - 1
    /\ refresh_pc' = "wait"
    /\ IF target
       THEN /\ poll_pc' = "run"
            /\ elapsed' = 0
            /\ poll_result' = "none"
       ELSE UNCHANGED pollVars
    /\ UNCHANGED <<sockets, closes, hs_failed, accept_pc, cur, next_conn,
                   sent, sender_alive, drained, errors, target, handled, send_errs>>
    /\ UNCHANGED notWsVars

\* for _ in refresh: one event is taken; with a proxy target the poll starts
RefreshRecv ==
    /\ AtRecv
    /\ queue > 0
    /\ queue' = queue - 1
    /\ refresh_pc' = "wait"
    /\ IF target
       THEN /\ poll_pc' = "run"
            /\ elapsed' = 0
            /\ poll_result' = "none"
       ELSE UNCHANGED pollVars
    /\ UNCHANGED <<sockets, closes, hs_failed, accept_pc, cur, next_conn, lock,
                   sent, sender_alive, drained, errors, target, handled, send_errs>>
    /\ UNCHANGED notWsVars

\* the channel is empty and its sender is gone: the for loop ends, and the
\* closure's clone of the Arc is dropped with the thread
RefreshEnd ==
    /\ refresh_pc = "recv"
    /\ queue = 0
    /\ ~sender_alive
    /\ refresh_pc' = "ended"
    /\ DropRegistry(accept_pc = "ended")
    /\ UNCHANGED <<hs_failed, accept_pc, cur, next_conn, lock,
                   queue, sent, sender_alive, drained, errors, target, handled, send_errs>>
    /\ UNCHANGED <<pollVars, notWsVars>>

\* a faulty handler: it does not wait for the poll before it drains
PollDoneAlways == TRUE

\* wait_until_socket_open(target) has returned, or was not called
PollDone == poll_pc \in {"off", "returned"}

\* sockets.lock().unwrap(), in the refresh thread, once the poll (if any)
\* has returned
RefreshLock ==
    /\ refresh_pc = "wait"
    /\ PollDone
    /\ lock = "free"
    /\ lock' = "refresh"
    /\ refresh_pc' = "clear"
    /\ UNCHANGED <<sockets, closes, hs_failed, accept_pc, cur, next_conn, queue,
                   sent, sender_alive, drained, errors, target, handled, send_errs>>
    /\ UNCHANGED <<pollVars, notWsVars>>

\* .clear(): every WebSocket of the vector is dropped, which closes it
RefreshClear ==
    /\ refresh_pc = "clear"
    /\ lock = "refresh"
    /\ closes' = [c \in Conns |-> closes[c] + Occurrences(sockets, c)]
    /\ drained' = Registered
    /\ sockets' = ClearSockets(sockets)
    /\ handled' = handled + 1
    /\ refresh_pc' = "unlock"
    /\ UNCHANGED <<hs_failed, accept_pc, cur, next_conn, lock, queue, sent,
                   sender_alive, errors, target, send_errs>>
    /\ UNCHANGED <<pollVars, notWsVars>>

\* the guard is dropped at the end of the statement; the loop waits again
RefreshUnlock ==
    /\ refresh_pc = "unlock"
    /\ lock = "refresh"
    /\ lock' = "free"
    /\ refresh_pc' = "recv"
    /\ poll_pc' = "off"
    /\ elapsed' = 0
    /\ poll_result' = "none"
    /\ UNCHANGED <<sockets, closes, hs_failed, accept_pc, cur, next_conn, queue,
                   sent, sender_alive, drained, errors, target, handled, send_errs>>
    /\ UNCHANGED notWsVars

\* serve_ws is entered: the vector is empty, the refresh thread is spawned,
\* then the listener is bound
InitWs ==
    /\ sockets = <<>>
    /\ closes = [c \in Conns |-> 0]
    /\ hs_failed = {}
    /\ accept_pc = "bind"
    /\ cur = 0
    /\ next_conn = 0
    /\ lock = "free"
    /\ refresh_pc = "recv"
    /\ queue = 0
    /\ sent = 0
    /\ sender_alive = TRUE
    /\ drained = {}
    /\ errors = <<>>
    /\ errors_rx \in BOOLEAN
    /\ target \in BOOLEAN
    /\ handled = 0
    /\ send_errs = 0
    /\ PollOff
    /\ InjectOff
    /\ TaskOff
    /\ ProxyOff
    /\ ProcOff
    /\ ParseOff

NextWs ==
    \/ DropErrorsReceiver
    \/ AcceptBind
    \/ AcceptIncoming
    \/ AcceptHandshake
    \/ AcceptLock
    \/ AcceptPush
    \/ SendRefresh
    \/ DropSender
    \/ RefreshRecv
    \/ RefreshEnd
    \/ RefreshLock
    \/ RefreshClear
    \/ RefreshUnlock
    \/ PollAttempt
    \/ PollTimeout

Spec == InitWs /\ [][NextWs]_vars

\* the threads of serve_ws run: the refresh thread takes the steps it can
\* take and gets the mutex it waits for, the poll goes on, and the accept
\* loop, once it holds the mutex, pushes and releases it
SpecFair ==
    /\ Spec
    /\ WF_vars(RefreshRecv)
    /\ SF_vars(RefreshLock)
    /\ WF_vars(RefreshClear)
    /\ WF_vars(RefreshUnlock)
    /\ WF_vars(PollAttempt \/ PollTimeout)
    /\ WF_vars(AcceptPush)

\* wait_until_socket_open(target) alone
InitPoll ==
    /\ poll_pc = "run"
    /\ elapsed = 0
    /\ poll_result = "none"
    /\ WsOff
    /\ RxOff
    /\ InjectOff
    /\ TaskOff
    /\ ProxyOff
    /\ ProcOff
    /\ ParseOff

NextPoll ==
    \/ PollAttempt
    \/ PollTimeout

SpecPoll == InitPoll /\ [][NextPoll]_vars

\* a thread that can take a step takes it
SpecPollFair == SpecPoll /\ WF_vars(NextPoll)

(***************************************************************************)
(* Claims about serve_ws and wait_until_socket_open                        *)
(***************************************************************************)
\* the connections whose handshake succeeded
Accepted ==
    { c \in 1..next_conn : c \notin hs_failed /\ ~(cur = c /\ accept_pc = "handshake") }

\* the connection the accept loop holds between its handshake and its push
HeldByAccept(c) == cur = c /\ accept_pc \in {"lock", "push"}

\* C5: under every interleaving of the accept loop and the refresh thread,
\* right after a drain the registry is empty and every connection the drain
\* found in it is closed; no connection is ever closed twice; a connection
\* whose handshake succeeded is at all times exactly one of: still held by
\* the accept loop, registered (once) and open, or closed once and not
\* registered.
C5_DrainAtomic ==
    /\ refresh_pc = "unlock" =>
           /\ sockets = <<>>
           /\ \A c \in drained : closes[c] = 1
    /\ \A c \in Conns : closes[c] <= 1
    /\ \A c \in Conns : closes[c] > 0 => c \in Accepted
    /\ \A c \in Accepted :
           \/ HeldByAccept(c) /\ c \notin Registered /\ closes[c] = 0
           \/ ~HeldByAccept(c) /\ Occurrences(sockets, c) = 1 /\ closes[c] = 0
           \/ ~HeldByAccept(c) /\ c \notin Registered /\ closes[c] = 1
    /\ lock = "accept" => accept_pc = "push"
    /\ lock = "refresh" => refresh_pc \in {"clear", "unlock"}

\* a drain has just closed two registered connections while the accept loop
\* waits for the lock with a third
C5_Witness ==
    /\ refresh_pc = "unlock"
    /\ Cardinality(drained) >= 2
    /\ accept_pc = "lock"
    /\ cur \notin drained

\* C6 (as stated): a failed handshake drops only that connection: the step
\* that records the failure leaves the accept loop running, and leaves the
\* registry as it was.
C6_HandshakeFailureIsolated ==
    [][ hs_failed' # hs_failed =>
            /\ accept_pc' = "incoming"
            /\ sockets' = sockets
            /\ closes' = closes ]_vars

\* C9: the poll always returns; it returns on a timeout only once the budget
\* has elapsed and before one more (over-long) attempt could follow; every
\* failed attempt takes at least one period, so at most
\* PORT_WAIT_TIMEOUT / POLL_PERIOD attempts are made; and a successful connect
\* ends it at once.
C9_PollTerminates ==
    /\ <>(poll_pc = "returned")
    /\ [](poll_result = "timeout" =>
              /\ poll_pc = "returned"
              /\ elapsed >= PORT_WAIT_TIMEOUT
              /\ elapsed < PORT_WAIT_TIMEOUT + 2 * POLL_PERIOD)
    /\ [](poll_pc = "run" => elapsed < PORT_WAIT_TIMEOUT + 2 * POLL_PERIOD)
    /\ [](poll_result = "open" => poll_pc = "returned")
    /\ [][ (poll_pc = "run" /\ poll_pc' = "run") =>
               elapsed' >= elapsed + POLL_PERIOD ]_vars
    /\ [][ poll_pc = "returned" => poll_pc' = "returned" ]_vars

\* the poll has returned on a timeout after the budget of 3 s
C9_Witness ==
    /\ poll_pc = "returned"
    /\ poll_result = "timeout"
    /\ elapsed >= PORT_WAIT_TIMEOUT

\* the refresh events the thread has taken from the channel
Received == sent - queue

\* C13: the refresh thread takes an event only when the handling of every
\* event it took before is complete, one event at a time; the drain of an
\* event comes after the poll of that event; and every event that was sent
\* is handled in the end: at all times there is a later moment at which
\* every event sent so far has been handled.
C13_RefreshSequential ==
    /\ [](handled <= Received /\ Received <= handled + 1)
    /\ [](refresh_pc \in {"recv", "ended"} => handled = Received)
    /\ [](refresh_pc \in {"wait", "clear"} => handled + 1 = Received)
    /\ [](poll_pc = "run" => refresh_pc = "wait")
    /\ [][ queue' < queue =>
               /\ queue' = queue - 1
               /\ handled = Received
               /\ refresh_pc = "recv" /\ refresh_pc' = "wait" ]_vars
    /\ [][ handled' # handled =>
               /\ handled' = handled + 1
               /\ poll_pc # "run" ]_vars
    /\ []<>(handled = sent)

\* the second of two events is being polled for after the first one was
\* handled, with a connection registered since
C13_Witness ==
    /\ sent = 2
    /\ handled = 1
    /\ refresh_pc = "wait"
    /\ poll_pc = "run"
    /\ elapsed > 0
    /\ sockets # <<>>

\* the step is the drain of the refresh thread, and it closes every
\* connection of the registry
DrainStep ==
    /\ refresh_pc = "clear"
    /\ refresh_pc' = "unlock"
    /\ sockets' = <<>>
    /\ \A c \in Conns :
           closes'[c] = closes[c] + (IF c \in Registered THEN 1 ELSE 0)

\* the registry t holds what s held, in the same places
Extends(t, s) == Len(t) >= Len(s) /\ SubSeq(t, 1, Len(s)) = s

\* C15: with a backend target, the refresh thread is at its drain only after
\* the poll of that event has returned, on a connect or on the exhausted
\* budget; from the receipt of the event to the return of the poll no
\* connection is closed or removed; and when the poll returns on the
\* exhausted budget (after the warning) the drain follows and closes every
\* registered connection.
C15_DrainAfterPoll ==
    /\ []((target /\ refresh_pc \in {"clear", "unlock"}) =>
              /\ poll_pc = "returned"
              /\ poll_result \in {"open", "timeout"})
    /\ [](poll_result = "timeout" => elapsed >= PORT_WAIT_TIMEOUT)
    /\ [][ (target /\ refresh_pc' = "wait" /\ poll_pc' = "run") =>
               /\ closes' = closes
               /\ Extends(sockets', sockets) ]_vars
    /\ [][ (refresh_pc = "clear" /\ refresh_pc' # "clear") => DrainStep ]_vars
    /\ (refresh_pc = "wait" /\ poll_result = "timeout") ~>
           (refresh_pc = "unlock" /\ poll_result = "timeout")

\* after a poll that used up its budget, the drain has closed two connections
C15_Witness ==
    /\ target
    /\ refresh_pc = "unlock"
    /\ poll_result = "timeout"
    /\ elapsed >= PORT_WAIT_TIMEOUT
    /\ Cardinality(drained) >= 2
    /\ \A c \in drained : closes[c] = 1

\* C16: while the poll runs the refresh thread does not hold the mutex; the
\* accept loop that waits for the mutex then can take it, and what it
\* registers stays registered until the drain that follows the poll, which
\* closes every connection of the registry.
C16_NoLockDuringPoll ==
    /\ [](poll_pc = "run" => lock # "refresh")
    /\ []((poll_pc = "run" /\ accept_pc = "lock" /\ lock = "free") =>
              ENABLED AcceptLock)
    /\ [][ refresh_pc = "wait" /\ refresh_pc' = "wait" =>
               /\ Extends(sockets', sockets)
               /\ closes' = closes ]_vars
    /\ [][ (refresh_pc = "wait" /\ refresh_pc' # "wait") =>
               (refresh_pc' = "clear" /\ PollDone /\ UNCHANGED <<sockets, closes>>) ]_vars
    /\ [][ (refresh_pc = "clear" /\ refresh_pc' # "clear") =>
               (DrainStep /\ \A c \in Registered : closes'[c] = 1) ]_vars

\* in the middle of a poll the accept loop holds the mutex, about to
\* register a second connection
C16_Witness ==
    /\ poll_pc = "run"
    /\ elapsed >= POLL_PERIOD
    /\ lock = "accept"
    /\ accept_pc = "push"
    /\ sockets # <<>>

\* the step ends the last of the two threads that own the registry
LastOwnerEnds ==
    /\ accept_pc' = "ended"
    /\ refresh_pc' = "ended"
    /\ accept_pc # "ended" \/ refresh_pc # "ended"

\* C20 (as stated): connections are closed, and leave the registry, only in
\* the drain of the refresh thread, which handles one refresh event that was
\* sent; every other step leaves the registered connections registered and
\* open.
C20_ClosedOnlyByDrain ==
    [][ (closes' # closes \/ ~Extends(sockets', sockets)) =>
            /\ DrainStep
            /\ handled' = handled + 1
            /\ handled' <= sent ]_vars

\* C20 (amended): connections are closed, and leave the registry, only in
\* the drain of the refresh thread, which handles one refresh event that was
\* sent, or when the last of the accept loop and the refresh thread ends and
\* the registry is dropped; the steps of the accept loop that do not end it
\* only add to the registry.
C20_ClosedByDrainOrDrop ==
    /\ [][ (closes' # closes \/ ~Extends(sockets', sockets)) =>
               \/ /\ DrainStep
                  /\ handled' = handled + 1
                  /\ handled' <= sent
               \/ /\ LastOwnerEnds
                  /\ sockets' = <<>>
                  /\ \A c \in Conns :
                         closes'[c] = closes[c] + (IF c \in Registered THEN 1 ELSE 0) ]_vars
    /\ [][ (accept_pc' # accept_pc /\ accept_pc' # "ended") =>
               /\ Extends(sockets', sockets)
               /\ closes' = closes ]_vars
    /\ [](\A c \in Registered : closes[c] = 0)

\* after one refresh event was handled, a connection registered since is
\* open and registered while the refresh thread waits for the next event
C20_Witness ==
    /\ handled = 1
    /\ refresh_pc = "recv"
    /\ queue = 0
    /\ drained # {}
    /\ sockets # <<>>
    /\ \A c \in Registered : closes[c] = 0 /\ c \notin drained

(***************************************************************************)
(* run_server and proxy (src/http.rs:51-128)                               *)
(***************************************************************************)
\* b"text/html"
TEXT_HTML == <<116, 101, 120, 116, 47, 104, 116, 109, 108>>
\* "text/plain"
TEXT_PLAIN == <<116, 101, 120, 116, 47, 112, 108, 97, 105, 110>>

\* config.proxy, the backend address
ProxyTarget == "127.0.0.1:3000"

\* the path-and-query of a request: Option<&str> as a set, None is {}
PathAndQueries == { {}, {"/"}, {"/a?x=1"} }

\* Content-Type values of backend responses: none, "text/html",
\* "text/html;", "text/plain", "text", "TEXT/HTML"
ContentTypes ==
    { {}, {TEXT_HTML}, {TEXT_HTML \o <<59>>}, {TEXT_PLAIN},
      {<<116, 101, 120, 116>>}, {<<84, 69, 88, 84, 47, 72, 84, 77, 76>>} }

\* bodies of backend responses: empty, "x</body>y"
Bodies == { <<>>, <<120>> \o BODY_CLOSE \o <<121>> }

\* what client.request(req).await gives: an error, or a response whose
\* body can (body_ok) or cannot be read to its end
Upstreams ==
    { [kind |-> "err", e |-> e] : e \in {"connection refused", "timed out"} }
    \cup
    { [kind |-> "ok", body_ok |-> ok,
       response |-> [status |-> st,
                     headers |-> [content_type |-> ct,
                                  content_length |-> IF hl THEN {Len(b)} ELSE {},
                                  other |-> "x-backend"],
                     body |-> b]] :
          ok \in BOOLEAN, st \in {200, 404}, ct \in ContentTypes,
          hl \in BOOLEAN, b \in Bodies }

\* Uri::builder().scheme("http").authority(target)
\*     .path_and_query(req.uri().path_and_query().map(..).unwrap_or(""))
\* the builder gives a URI with a scheme and an empty path the path "/", so
\* a request without path-and-query is sent to the same URI as one for "/"
BuildUri(tgt, pq) ==
    [scheme |-> "http",
     authority |-> tgt,
     path_and_query |-> IF pq = {} THEN "/" ELSE CHOOSE x \in pq : TRUE]

\* the Err(e) arm: 502 with the message as a text/plain body
BadGateway(uri, e) ==
    [status |-> 502,
     headers |-> [content_type |-> {TEXT_PLAIN}, content_length |-> {},
                  other |-> "none"],
     body |-> <<"failed to reach ", uri, "\nError:\n\n", e>>]

\* content_type.is_some() && content_type.unwrap().starts_with(b"text/html")
IsHtml(resp) ==
    /\ resp.headers.content_type # {}
    /\ StartsWith(CHOOSE ct \in resp.headers.content_type : TRUE, TEXT_HTML)

\* a faulty rewrite: the body is replaced and Content-Length is left as it was
InjectedKeepLen(resp, port) ==
    [resp EXCEPT !.body = inject_into(resp.body, port)]

\* the body is replaced and Content-Length, if present, is set to its length
Injected(resp, port) ==
    LET new_body == inject_into(resp.body, port)
    IN [resp EXCEPT
            !.body = new_body,
            !.headers.content_length =
                IF resp.headers.content_length # {} THEN {Len(new_body)} ELSE {}]

\* a faulty proxy: it hands the request error on with `?`
proxy_propagate(pq, up, tgt, port, reload) ==
    IF up.kind = "err" THEN [kind |-> "Err", e |-> up.e]
    ELSE [kind |-> "Ok", response |-> up.response]

\* proxy(req, target, ws_addr, auto_reload): Ok(response) or Err(e)
proxy(pq, up, tgt, port, reload) ==
    LET uri == BuildUri(tgt, pq)
    IN IF up.kind = "err"
       THEN [kind |-> "Ok", response |-> BadGateway(uri, up.e)]
       ELSE IF ~reload
       THEN [kind |-> "Ok", response |-> up.response]
       ELSE IF IsHtml(up.response)
       THEN IF up.body_ok
            THEN [kind |-> "Ok", response |-> Injected(up.response, port)]
            ELSE [kind |-> "Err", e |-> "to_bytes"]
       ELSE [kind |-> "Ok", response |-> up.response]

\* what hyper's server does with the result of one service call (hyper is a
\* dependency and not part of these sources): the response of Ok(..) is
\* written to the connection; on Err(..) the connection of that request is
\* closed; the server future goes on in both cases
ServerAfter(r) == IF r.kind = "Err" THEN "serving" ELSE "serving"

\* run_server up to `server.await`: without a proxy target it bails, and the
\* closure of `run` sends the error to the supervisor; Server::bind panics
\* when the address cannot be bound, which unwinds the thread past the closure
RunServerStart ==
    /\ server_pc = "start"
    /\ IF ~proxy_cfg
       THEN /\ server_pc' = "ended"
            /\ server_err' = "bug: invalid http config"
            /\ errors' = ReportErr(errors, "run_server", errors_rx)
       ELSE /\ \E bound \in BOOLEAN :
                   server_pc' = IF bound THEN "serving" ELSE "panicked"
            /\ UNCHANGED <<server_err, errors>>
    /\ UNCHANGED <<proxy_cfg, auto_reload, served, last_pq, last_up, last_result,
                   answers, inflight>>
    /\ UNCHANGED notProxyVars

\* server.await? returns an error of the server itself (not of a service
\* call): run_server returns it and the closure of `run` sends it to the
\* supervisor; the runtime of #[tokio::main] is dropped and with it the calls
\* of proxy in flight
ServerFail ==
    /\ server_pc = "serving"
    /\ server_pc' = "ended"
    /\ server_err' = "server.await"
    /\ errors' = ReportErr(errors, "run_server", errors_rx)
    /\ inflight' = EmptyBag
    /\ UNCHANGED <<proxy_cfg, auto_reload, served, last_pq, last_up, last_result,
                   answers>>
    /\ UNCHANGED notProxyVars

\* the call of proxy that waits at one of its awaits: for the answer of the
\* backend (pc "request", http.rs:94) or for the end of the body it buffers
\* (pc "to_bytes", http.rs:100), holding the response it got
Waiting(pc, pq, up) == [pc |-> pc, pq |-> pq, up |-> up]

\* the calls in flight that wait at `pc`
WaitingAt(pc) == { q \in BagToSet(inflight) : q.pc = pc }

\* the response is buffered and rewritten: auto_reload is on and the
\* Content-Type begins with text/html
Buffers(up, reload) == up.kind = "ok" /\ reload /\ IsHtml(up.response)

\* what client.request(req).await resolves to: the body of a response has
\* not been read then, and has not failed
Answered == { up \in Upstreams : up.kind = "ok" => up.body_ok }

\* a call of proxy that got `up` from the backend returns; when it returns
\* an error hyper closes that request's connection without a response
\* ("aborted")
ServiceReturn(pq, up) ==
    LET r == proxy(pq, up, ProxyTarget, WsPort, auto_reload)
    IN /\ last_pq' = pq
       /\ last_up' = up
       /\ last_result' = r
       /\ answers' = Append(answers,
                            IF r.kind = "Err" THEN "aborted"
                            ELSE IF r.response.status = 502 /\ up.kind = "err"
                            THEN "bad gateway" ELSE "forwarded")
       /\ server_pc' = ServerAfter(r)
       /\ served' = served + 1

\* the service function is called for a request: proxy builds the URI,
\* sends the request on and waits at client.request(req).await; the server
\* goes on taking requests meanwhile
ProxyCall ==
    /\ server_pc = "serving"
    /\ served + BagCardinality(inflight) < MaxRequests
    /\ \E pq \in PathAndQueries :
           inflight' = inflight (+) SetToBag({Waiting("request", pq, [kind |-> "none"])})
    /\ UNCHANGED <<server_pc, proxy_cfg, auto_reload, served, last_pq, last_up,
                   last_result, answers, server_err, errors>>
    /\ UNCHANGED notProxyVars

\* client.request(req).await resolves: on an error proxy returns the 502, a
\* response that is not rewritten is returned as it is, and for one that is
\* proxy waits at hyper::body::to_bytes(body).await
ProxyResponse ==
    /\ \E q \in WaitingAt("request"), up \in Answered :
           IF Buffers(up, auto_reload)
           THEN /\ inflight' = (inflight (-) SetToBag({q}))
                                   (+) SetToBag({Waiting("to_bytes", q.pq,
                                                         [kind |-> "ok",
                                                          response |-> up.response])})
                /\ UNCHANGED <<server_pc, served, last_pq, last_up, last_result,
                               answers>>
           ELSE /\ inflight' = inflight (-) SetToBag({q})
                /\ ServiceReturn(q.pq, up)
    /\ UNCHANGED <<proxy_cfg, auto_reload, server_err, errors>>
    /\ UNCHANGED notProxyVars

\* to_bytes(body).await resolves: with the bytes, which proxy rewrites and
\* returns, or with an error, which proxy returns with `?`
ProxyToBytes ==
    /\ \E q \in WaitingAt("to_bytes"), body_ok \in BOOLEAN :
           /\ inflight' = inflight (-) SetToBag({q})
           /\ ServiceReturn(q.pq, [kind |-> "ok", body_ok |-> body_ok,
                                   response |-> q.up.response])
    /\ UNCHANGED <<proxy_cfg, auto_reload, server_err, errors>>
    /\ UNCHANGED notProxyVars

InitProxy ==
    /\ server_pc = "start"
    /\ proxy_cfg \in BOOLEAN
    /\ auto_reload \in BOOLEAN
    /\ served = 0
    /\ last_pq = {}
    /\ last_up = [kind |-> "none"]
    /\ last_result = [kind |-> "none"]
    /\ answers = <<>>
    /\ server_err = "none"
    /\ errors_rx \in BOOLEAN
    /\ inflight = EmptyBag
    /\ InjectOff
    /\ TaskOff
    /\ WsOff
    /\ PollOff
    /\ ProcOff
    /\ ParseOff

NextProxy ==
    \/ DropErrorsReceiver
    \/ RunServerStart
    \/ ServerFail
    \/ ProxyCall
    \/ ProxyResponse
    \/ ProxyToBytes

SpecProxy == InitProxy /\ [][NextProxy]_vars

\* run (src/http.rs:20-49) has returned: the thread of run_server is spawned
\* and, with auto_reload, the thread of serve_ws; both read one configuration
InitRun ==
    /\ server_pc = "start"
    /\ proxy_cfg \in BOOLEAN
    /\ auto_reload \in BOOLEAN
    /\ served = 0
    /\ last_pq = {}
    /\ last_up = [kind |-> "none"]
    /\ last_result = [kind |-> "none"]
    /\ answers = <<>>
    /\ server_err = "none"
    /\ inflight = EmptyBag
    /\ sockets = <<>>
    /\ closes = [c \in Conns |-> 0]
    /\ hs_failed = {}
    /\ accept_pc = IF auto_reload THEN "bind" ELSE "off"
    /\ cur = 0
    /\ next_conn = 0
    /\ lock = "free"
    /\ refresh_pc = IF auto_reload THEN "recv" ELSE "off"
    /\ queue = 0
    /\ sent = 0
    /\ sender_alive = TRUE
    /\ drained = {}
    /\ errors = <<>>
    /\ errors_rx \in BOOLEAN
    /\ target = proxy_cfg
    /\ handled = 0
    /\ send_errs = 0
    /\ PollOff
    /\ InjectOff
    /\ TaskOff
    /\ ProcOff
    /\ ParseOff

\* the steps by which the threads start, work and end (the requests the
\* proxy serves end no thread and are left to SpecProxy)
NextRun ==
    \/ DropErrorsReceiver
    \/ RunServerStart
    \/ ServerFail
    \/ AcceptBind
    \/ AcceptIncoming
    \/ AcceptHandshake
    \/ AcceptLock
    \/ AcceptPush
    \/ SendRefresh
    \/ DropSender
    \/ RefreshRecv
    \/ RefreshEnd
    \/ RefreshLock
    \/ RefreshClear
    \/ RefreshUnlock
    \/ PollAttempt
    \/ PollTimeout

SpecRun == InitRun /\ [][NextRun]_vars

(***************************************************************************)
(* Claims about the proxy                                                  *)
(***************************************************************************)
\* the thread's report is on the error channel
Reported(who) == \E i \in 1..Len(errors) : errors[i] = who

\* C14 (as stated): a thread of run_server or of serve_ws that has ended
\* with an error, a failure to bind included, has sent that error on the
\* error channel, once; and nothing else is sent on it.
C14_ErrorsReported ==
    /\ server_pc \in {"ended", "panicked"} => Reported("run_server")
    /\ accept_pc = "ended" => Reported("serve_ws")
    /\ Reported("run_server") => server_pc = "ended"
    /\ Reported("serve_ws") => accept_pc = "ended"
    /\ Len(errors) <= 2

\* what the proxy answers when sending the request `pq` on has failed with
\* `e`: 502, text/plain, and a body that names the URI it tried,
\* http://<backend><path and query>, with the path "/" when the request
\* had none
Expected502(pq, e) ==
    [status |-> 502,
     headers |-> [content_type |-> {TEXT_PLAIN}, content_length |-> {},
                  other |-> "none"],
     body |-> <<"failed to reach ",
                [scheme |-> "http", authority |-> ProxyTarget,
                 path_and_query |-> IF pq = {} THEN "/"
                                    ELSE CHOOSE x \in pq : TRUE],
                "\nError:\n\n", e>>]

BeginsWithTextHtml(resp) ==
    \E ct \in resp.headers.content_type :
        /\ Len(ct) >= 9
        /\ SubSeq(ct, 1, 9) = <<116, 101, 120, 116, 47, 104, 116, 109, 108>>

\* C18: a response of the backend is handed on as it is unless live-reload
\* is on and its Content-Type begins with "text/html"; then the response
\* handed on has the injected body, a Content-Length header that (where the
\* backend sent one; none is added) gives the length of that body, and the
\* backend's status and other headers.
C18_ProxyFrame ==
    (served > 0 /\ last_up.kind = "ok" /\ last_result.kind = "Ok") =>
        LET up == last_up.response
            r == last_result.response
        IN IF auto_reload /\ BeginsWithTextHtml(up)
           THEN /\ r.body = inject_into(up.body, WsPort)
                /\ Len(r.body) = Len(up.body) + Len(Script(WsPort))
                /\ \A n \in r.headers.content_length : n = Len(r.body)
                /\ (r.headers.content_length = {}) <=> (up.headers.content_length = {})
                /\ r.status = up.status
                /\ r.headers.content_type = up.headers.content_type
                /\ r.headers.other = up.headers.other
           ELSE r = up

\* with live-reload on, a 404 page of type "text/html;" that came with a
\* Content-Length has been handed on with the script in front of its
\* </body> and the Content-Length of the longer body
C18_Witness ==
    /\ served > 0
    /\ auto_reload
    /\ last_up.kind = "ok"
    /\ last_up.response.status = 404
    /\ last_up.response.headers.content_type = {TEXT_HTML \o <<59>>}
    /\ last_up.response.headers.content_length = {Len(last_up.response.body)}
    /\ Len(last_up.response.body) > Len(BODY_CLOSE)
    /\ last_result.kind = "Ok"
    /\ last_result.response.status = 404
    /\ last_result.response.headers.content_length = {Len(last_result.response.body)}
    /\ Len(last_result.response.body) > Len(last_up.response.body)

====
